---- MODULE Spec2Model ----
(***************************************************************************)
(* Multi-tier paste cache of Qbin (src/unnamed/part_000, lines 1-171):     *)
(*   L1  memCache   process-local Map                                      *)
(*   L2  cache      Cache API store, entries are header maps plus a body   *)
(*   L3  kv         Deno KV index (metadata without payload, or `true`)    *)
(*   L4  repo       MetadataRepository (src/src/db/repositories/...)       *)
(* plus the BroadcastChannel handler that re-runs updateCache in siblings. *)
(*                                                                         *)
(* An optional field of a JavaScript object is a sequence of length 0 or 1 *)
(* (<<>> = the field is not there), and so is a nullable value.            *)
(* Every handler is one action: it runs from its call to its return with   *)
(* no other task of the process in between; ResolveBegin and ResolveEnd    *)
(* are the two halves of a getCachedContent that is suspended at the await *)
(* of line 85 or of line 121 (pending = the suspended call of a process).  *)
(***************************************************************************)
EXTENDS Integers, Sequences, FiniteSets, TLC

VARIABLES memCache, cache, kv, db, chan, writes, clean, last, pending

vars == <<memCache, cache, kv, db, chan, writes, clean, last, pending>>

-----------------------------------------------------------------------------
(* Bounds and constants *)

\* number of backing-store writes (uploads and removals) in one behaviour
MaxWrites == 2

\* the current timestamp the expire values are compared with
Now == 10

\* in-memory ceiling, imported from config/constants.ts (line 7)
MAX_CACHE_SIZE == 1048576

\* byte-tier ceiling, the literal of line 138
BYTE_TIER_MAX == 5242880

Procs == {"A", "B"}

Keys == {"k"}

\* stored passwords ("" = unprotected) and supplied credentials ("" = none)
Pwds == {"", "p"}

Creds == {"", "p", "!"}

ExpFuture == Now + 5

ExpPast == Now - 5

Exps == {ExpFuture, ExpPast}

Lens == {MAX_CACHE_SIZE, MAX_CACHE_SIZE + 1, BYTE_TIER_MAX + 1}

\* the body of a byte-tier entry stored without payload: new Uint8Array(0)
EmptyBody == 0

\* full Metadata rows, as the repository hands them out, with payload c
\* attached; payloads are numbered from 1, the n-th write carries payload n
MetasWith(c, exps) == [pwd : Pwds, expire : {<<e>> : e \in exps}, len : {<<n>> : n \in Lens},
                       content : {<<c>>}]

\* faults an awaited call of getCachedContent can raise
Faults == {"none", "match", "body", "kv", "db", "put"}

-----------------------------------------------------------------------------
(* L1 entry shapes *)

\* {'pwd': "!"}: the negative marker of lines 55 and 102
AbsentMarker == [pwd |-> "!", expire |-> <<>>, len |-> <<>>, content |-> <<>>]

\* {'pwd': p}: lines 77 and 106
DeniedEntry(p) == [pwd |-> p, expire |-> <<>>, len |-> <<>>, content |-> <<>>]

\* {'pwd': meta.pwd, expire: meta.expire}: line 165
Tombstone(p, e) == [pwd |-> p, expire |-> e, len |-> <<>>, content |-> <<>>]

\* delete dbData.content: a row without its payload, as the index tier holds it
StripContent(m) == [m EXCEPT !.content = <<>>]

\* expire is in the past at lookup time
Expired(m) == m.expire # <<>> /\ m.expire[1] < Now

-----------------------------------------------------------------------------
(* Password gate: validator.ts is not part of the sources at hand *)

checkPassword(stored, supplied) == stored = "" \/ stored = supplied

-----------------------------------------------------------------------------
(* Byte tier encoding: lines 139-154 (put) and 74-92 (match) *)

\* headers x-pwd, x-expire, Content-Length and the body; a missing payload
\* becomes the empty body (metadata.content || new Uint8Array(0))
Encode(m) ==
  [xpwd |-> m.pwd, xexpire |-> m.expire[1], clen |-> m.len[1],
   body |-> IF m.content = <<>> THEN EmptyBody ELSE m.content[1]]

\* the numbers come back through parseInt of their decimal text; the body is
\* always attached (arrayBuffer())
Decode(h) ==
  [pwd |-> h.xpwd, expire |-> <<h.xexpire>>, len |-> <<h.clen>>, content |-> <<h.body>>]

-----------------------------------------------------------------------------
(* updateCache: lines 135-158 *)

\* a write path without the byte-tier ceiling of line 138
updateCacheBodyNoCeiling(l1, l2, md, putFault) ==
  IF md = <<>>
  THEN [l1 |-> l1, l2 |-> l2, threw |-> TRUE]
  ELSE LET m == md[1]
           l1n == IF m.len[1] <= MAX_CACHE_SIZE THEN <<m>> ELSE l1
       IN IF putFault
          THEN [l1 |-> l1n, l2 |-> l2, threw |-> TRUE]
          ELSE [l1 |-> l1n, l2 |-> <<Encode(m)>>, threw |-> FALSE]

\* a write path that takes a record L1 already holds for an eviction
updateCacheBodyEvicting(l1, l2, md, putFault) ==
  IF md = <<>>
  THEN [l1 |-> l1, l2 |-> l2, threw |-> TRUE]
  ELSE LET m == md[1]
           l1n == IF m.len[1] <= MAX_CACHE_SIZE THEN (IF l1 = <<m>> THEN <<>> ELSE <<m>>) ELSE l1
       IN IF m.len[1] > BYTE_TIER_MAX
          THEN [l1 |-> l1n, l2 |-> l2, threw |-> FALSE]
          ELSE IF putFault
               THEN [l1 |-> l1n, l2 |-> l2, threw |-> TRUE]
               ELSE [l1 |-> l1n, l2 |-> <<Encode(m)>>, threw |-> FALSE]

\* the try block; threw = an exception left the block
updateCacheBody(l1, l2, md, putFault) ==
  IF md = <<>>
  THEN [l1 |-> l1, l2 |-> l2, threw |-> TRUE]          \* metadata.len of undefined
  ELSE LET m == md[1]
           l1n == IF m.len[1] <= MAX_CACHE_SIZE THEN <<m>> ELSE l1
       IN IF m.len[1] > BYTE_TIER_MAX
          THEN [l1 |-> l1n, l2 |-> l2, threw |-> FALSE]
          ELSE IF putFault
               THEN [l1 |-> l1n, l2 |-> l2, threw |-> TRUE]
               ELSE [l1 |-> l1n, l2 |-> <<Encode(m)>>, threw |-> FALSE]

\* a write path without the catch of line 155
updateCacheNoCatch(l1, l2, md, putFault) ==
  LET b == updateCacheBody(l1, l2, md, putFault) IN
  [l1 |-> b.l1, l2 |-> b.l2, threw |-> b.threw, caught |-> b.threw]

\* the catch of line 155 logs and returns: nothing is thrown to the caller;
\* caught = the catch block ran
updateCache(l1, l2, md, putFault) ==
  LET b == updateCacheBody(l1, l2, md, putFault) IN
  [l1 |-> b.l1, l2 |-> b.l2, threw |-> FALSE, caught |-> b.threw]

-----------------------------------------------------------------------------
(* deleteCache: lines 163-171 *)

\* meta.expire = -meta.expire when positive (line 166), in place
NegateExpire(m) == IF m.expire[1] > 0 THEN [m EXCEPT !.expire = <<0 - m.expire[1]>>] ELSE m

\* md is the caller's meta object after the call
deleteCache(l1, l2, md, putFault) ==
  IF md = <<>>
  THEN [l1 |-> l1, l2 |-> l2, md |-> md, threw |-> FALSE, caught |-> TRUE]   \* line 168
  ELSE LET m == md[1]
           tomb == <<Tombstone(m.pwd, m.expire)>>
           u == updateCache(tomb, l2, <<NegateExpire(m)>>, putFault)
       IN \* what updateCache throws is caught at line 168
          [l1 |-> u.l1, l2 |-> u.l2, md |-> <<NegateExpire(m)>>, threw |-> FALSE,
           caught |-> u.caught \/ u.threw]

-----------------------------------------------------------------------------
(* checkCached: lines 64-110.  kind: "null", "rec" (val = the record), "true" *)
(* (the forwarding marker of the index tier); line = the returning line.     *)

NoRec == [pwd |-> "", expire |-> <<>>, len |-> <<>>, content |-> <<>>]

CcRet(kind, val, l1, line) ==
  [kind |-> kind, val |-> val, l1 |-> l1, threw |-> FALSE, line |-> line]

CcThrow(l1, line) ==
  [kind |-> "null", val |-> NoRec, l1 |-> l1, threw |-> TRUE, line |-> line]

\* a lookup without the return of line 67: an L1 entry that the credential
\* does not open is passed over
checkCachedNoShortCircuit(l1, l2, kvv, pwd, fault) ==
  LET memHit == l1 # <<>> /\ checkPassword(l1[1].pwd, pwd) IN
  IF memHit /\ l1[1].content # <<>> THEN CcRet("rec", l1[1], l1, 68)
  ELSE IF fault = "match" THEN CcThrow(l1, 72)
  ELSE IF l2 # <<>>
       THEN IF l2[1].xpwd # "" /\ l2[1].xpwd # pwd
            THEN CcRet("null", NoRec, <<DeniedEntry(l2[1].xpwd)>>, 78)
            ELSE IF fault = "body" THEN CcThrow(l1, 85)
                 ELSE CcRet("rec", Decode(l2[1]), <<Decode(l2[1])>>, 94)
  ELSE IF memHit THEN CcRet("rec", l1[1], l1, 97)
  ELSE IF fault = "kv" THEN CcThrow(l1, 100)
  ELSE IF kvv.kind = "none" THEN CcRet("null", NoRec, <<AbsentMarker>>, 103)
  ELSE IF kvv.kind = "fwd" THEN CcRet("true", NoRec, l1, 109)
  ELSE IF ~checkPassword(kvv.val.pwd, pwd)
       THEN CcRet("null", NoRec, <<DeniedEntry(kvv.val.pwd)>>, 107)
       ELSE CcRet("rec", kvv.val, l1, 109)

checkCached(l1, l2, kvv, pwd, fault) ==
  LET memHit == l1 # <<>> IN
  IF memHit /\ ~checkPassword(l1[1].pwd, pwd) THEN CcRet("null", NoRec, l1, 67)
  ELSE IF memHit /\ l1[1].content # <<>> THEN CcRet("rec", l1[1], l1, 68)
  ELSE IF fault = "match" THEN CcThrow(l1, 72)
  ELSE IF l2 # <<>>
       THEN IF l2[1].xpwd # "" /\ l2[1].xpwd # pwd
            THEN CcRet("null", NoRec, <<DeniedEntry(l2[1].xpwd)>>, 78)
            ELSE IF fault = "body" THEN CcThrow(l1, 85)
                 ELSE CcRet("rec", Decode(l2[1]), <<Decode(l2[1])>>, 94)
  ELSE IF memHit THEN CcRet("rec", l1[1], l1, 97)
  ELSE IF fault = "kv" THEN CcThrow(l1, 100)
  ELSE IF kvv.kind = "none" THEN CcRet("null", NoRec, <<AbsentMarker>>, 103)
  ELSE IF kvv.kind = "fwd" THEN CcRet("true", NoRec, l1, 109)
  ELSE IF ~checkPassword(kvv.val.pwd, pwd)
       THEN CcRet("null", NoRec, <<DeniedEntry(kvv.val.pwd)>>, 107)
       ELSE CcRet("rec", kvv.val, l1, 109)

-----------------------------------------------------------------------------
(* getByFkey: metadataRepository.ts lines 51-56, the row or null *)

getByFkey(dbv) == dbv

-----------------------------------------------------------------------------
(* getCachedContent: lines 115-130.  res = <<>> is the null return; line is  *)
(* the line that decided the return; dbCalls counts repo.getByFkey calls;    *)
(* fault = the awaited call that rejected ("none" when none did); threw = an *)
(* exception leaves the function.                                            *)

GcRet(res, l1, l2, line, dbCalls, fault, threw) ==
  [res |-> res, l1 |-> l1, l2 |-> l2, line |-> line, dbCalls |-> dbCalls, fault |-> fault,
   threw |-> threw]

\* a backing-store step without the password check of line 123
GcBackingStoreNoCheck(l1, l2, dbv, pwd, fault) ==
  IF fault = "db" THEN GcRet(<<>>, l1, l2, 121, 1, "db", TRUE)
  ELSE LET dbData == getByFkey(dbv) IN
       IF dbData = <<>> THEN GcRet(<<>>, l1, l2, 122, 1, "none", FALSE)
       ELSE LET u == updateCache(l1, l2, dbData, fault = "put") IN
            IF u.threw THEN GcRet(<<>>, u.l1, u.l2, 124, 1, "put", TRUE)
            ELSE GcRet(dbData, u.l1, u.l2, 125, 1, IF u.caught THEN "put" ELSE "none", FALSE)

\* lines 121-125, entered with the L1 slot checkCached left
GcBackingStore(l1, l2, dbv, pwd, fault) ==
  IF fault = "db" THEN GcRet(<<>>, l1, l2, 121, 1, "db", TRUE)
  ELSE LET dbData == getByFkey(dbv) IN
       IF dbData = <<>> THEN GcRet(<<>>, l1, l2, 122, 1, "none", FALSE)
       ELSE IF ~checkPassword(dbData[1].pwd, pwd) THEN GcRet(<<>>, l1, l2, 123, 1, "none", FALSE)
       ELSE LET u == updateCache(l1, l2, dbData, fault = "put") IN
            IF u.threw THEN GcRet(<<>>, u.l1, u.l2, 124, 1, "put", TRUE)
            ELSE GcRet(dbData, u.l1, u.l2, 125, 1, IF u.caught THEN "put" ELSE "none", FALSE)

\* the try block, lines 117-125
getCachedContentTry(l1, l2, kvv, dbv, pwd, fault) ==
  LET c == checkCached(l1, l2, kvv, pwd, fault) IN
  IF c.threw THEN GcRet(<<>>, c.l1, l2, c.line, 0, fault, TRUE)
  ELSE IF c.kind = "null" THEN GcRet(<<>>, c.l1, l2, c.line, 0, "none", FALSE)
  ELSE IF c.kind = "rec" /\ c.val.content # <<>>
       THEN GcRet(<<c.val>>, c.l1, l2, c.line, 0, "none", FALSE)
  ELSE GcBackingStore(c.l1, l2, dbv, pwd, fault)

\* a resolve without the catch of line 126
getCachedContentNoCatch(l1, l2, kvv, dbv, pwd, fault) ==
  getCachedContentTry(l1, l2, kvv, dbv, pwd, fault)

\* a resolve that takes a fault of the L2 or L3 lookup for a miss and goes on
\* to the backing store
getCachedContentFailOpen(l1, l2, kvv, dbv, pwd, fault) ==
  LET t == getCachedContentTry(l1, l2, kvv, dbv, pwd, fault) IN
  IF t.threw /\ fault \in {"match", "body", "kv"}
  THEN [GcBackingStore(t.l1, l2, dbv, pwd, "none") EXCEPT !.fault = fault]
  ELSE IF t.threw THEN [t EXCEPT !.res = <<>>, !.line = 128, !.threw = FALSE]
  ELSE t

\* a resolve that treats a record whose expire is past as absent
getCachedContentExpiring(l1, l2, kvv, dbv, pwd, fault) ==
  LET t == getCachedContentTry(l1, l2, kvv, dbv, pwd, fault) IN
  IF t.threw THEN [t EXCEPT !.res = <<>>, !.line = 128, !.threw = FALSE]
  ELSE IF t.res # <<>> /\ Expired(t.res[1]) THEN [t EXCEPT !.res = <<>>]
  ELSE t

\* the catch of lines 126-129 logs and returns null
getCachedContent(l1, l2, kvv, dbv, pwd, fault) ==
  LET t == getCachedContentTry(l1, l2, kvv, dbv, pwd, fault) IN
  IF t.threw THEN [t EXCEPT !.res = <<>>, !.line = 128, !.threw = FALSE] ELSE t

-----------------------------------------------------------------------------
(* cacheBroadcast.onmessage: lines 15-23 *)

onmessage(l1, l2, msg, putFault) ==
  IF msg.type = "update" /\ msg.md # <<>> THEN updateCache(l1, l2, msg.md, putFault)
  ELSE IF msg.type = "delete" THEN updateCache(l1, l2, msg.md, putFault)
  ELSE [l1 |-> l1, l2 |-> l2, threw |-> FALSE, caught |-> FALSE]

-----------------------------------------------------------------------------
(* State *)

NoKv == [kind |-> "none", val |-> NoRec]

\* what the last completed operation was and what it returned to its caller:
\* res and line as in getCachedContent, fault = the store call that rejected
\* during it ("none" when none did), threw = an exception reached the caller
Event(op, proc, key, cred, res, line, dbCalls, fault, threw) ==
  [op |-> op, proc |-> proc, key |-> key, cred |-> cred, res |-> res, line |-> line,
   dbCalls |-> dbCalls, fault |-> fault, threw |-> threw]

Init ==
  /\ memCache = [p \in Procs |-> [k \in Keys |-> <<>>]]      \* line 10
  /\ cache = [k \in Keys |-> <<>>]                           \* line 11
  /\ kv = [k \in Keys |-> NoKv]                              \* line 12
  /\ db = [k \in Keys |-> <<>>]
  /\ chan = {}                                               \* line 13
  /\ writes = 0
  /\ clean = TRUE
  /\ last = Event("init", "A", "k", "", <<>>, 0, 0, "none", FALSE)
  /\ pending = [p \in Procs |-> <<>>]

Siblings(p) == Procs \ {p}

\* the caller stores the row (create, upsert by fkey), publishes it in its own
\* process and posts the update message to the siblings
Upload(p, k, m, pf) ==
  /\ writes < MaxWrites
  /\ LET u == updateCache(memCache[p][k], cache[k], <<m>>, pf) IN
     /\ db' = [db EXCEPT ![k] = <<m>>]
     /\ memCache' = [memCache EXCEPT ![p][k] = u.l1]
     /\ cache' = [cache EXCEPT ![k] = u.l2]
     /\ chan' = chan \cup {[to |-> q, type |-> "update", key |-> k, md |-> <<m>>] : q \in Siblings(p)}
     /\ pf => u.caught
     /\ last' = Event("publish", p, k, "", <<>>, 0, 0, IF u.caught THEN "put" ELSE "none", u.threw)
  /\ writes' = writes + 1
  /\ UNCHANGED <<kv, clean, pending>>

\* the caller retracts the row it read (with or without its payload), deletes
\* it from the store and posts the delete message with the same meta object
Remove(p, k, strip, pf) ==
  /\ writes < MaxWrites
  /\ db[k] # <<>>
  /\ LET meta == IF strip THEN StripContent(db[k][1]) ELSE db[k][1]
         d == deleteCache(memCache[p][k], cache[k], <<meta>>, pf)
     IN /\ db' = [db EXCEPT ![k] = <<>>]
        /\ memCache' = [memCache EXCEPT ![p][k] = d.l1]
        /\ cache' = [cache EXCEPT ![k] = d.l2]
        /\ chan' = chan \cup {[to |-> q, type |-> "delete", key |-> k, md |-> d.md] : q \in Siblings(p)}
        /\ pf => d.caught
        /\ last' = Event("retract", p, k, "", <<>>, 0, 0, IF d.caught THEN "put" ELSE "none", d.threw)
  /\ writes' = writes + 1
  /\ UNCHANGED <<kv, clean, pending>>

\* the channel hands one message to its recipient's handler
Deliver(msg, pf) ==
  /\ msg \in chan
  /\ LET p == msg.to
         k == msg.key
         u == onmessage(memCache[p][k], cache[k], msg, pf)
     IN /\ memCache' = [memCache EXCEPT ![p][k] = u.l1]
        /\ cache' = [cache EXCEPT ![k] = u.l2]
        /\ pf => u.caught
        /\ last' = Event(msg.type, p, k, "", <<>>, 0, 0, IF u.caught THEN "put" ELSE "none", u.threw)
  /\ chan' = chan \ {msg}
  /\ UNCHANGED <<kv, db, writes, clean, pending>>

Resolve(p, k, c, f) ==
  /\ LET g == getCachedContent(memCache[p][k], cache[k], kv[k], db[k], c, f) IN
     /\ memCache' = [memCache EXCEPT ![p][k] = g.l1]
     /\ cache' = [cache EXCEPT ![k] = g.l2]
     /\ g.fault = f
     /\ last' = Event("resolve", p, k, c, g.res, g.line, g.dbCalls, g.fault, g.threw)
  /\ clean' = FALSE
  /\ UNCHANGED <<kv, db, chan, writes, pending>>

\* a process restarts with an empty memCache
Restart(p) ==
  /\ memCache' = [memCache EXCEPT ![p] = [k \in Keys |-> <<>>]]
  /\ clean' = FALSE
  /\ last' = Event("restart", p, "k", "", <<>>, 0, 0, "none", FALSE)
  /\ UNCHANGED <<cache, kv, db, chan, writes, pending>>

\* the index tier catches up with the store: the row without payload, or the
\* forwarding marker
KvSync(k, fwd) ==
  /\ kv' = [kv EXCEPT ![k] = IF db[k] = <<>> THEN NoKv
                             ELSE IF fwd THEN [kind |-> "fwd", val |-> NoRec]
                             ELSE [kind |-> "rec", val |-> StripContent(db[k][1])]]
  /\ kv' # kv
  /\ clean' = FALSE
  /\ last' = Event("kvsync", "A", k, "", <<>>, 0, 0, "none", FALSE)
  /\ UNCHANGED <<memCache, cache, db, chan, writes, pending>>

\* runs in which no store call faults
Next ==
  \/ \E p \in Procs, k \in Keys, m \in MetasWith(writes + 1, Exps) : Upload(p, k, m, FALSE)
  \/ \E p \in Procs, k \in Keys, strip \in BOOLEAN : Remove(p, k, strip, FALSE)
  \/ \E msg \in chan : Deliver(msg, FALSE)
  \/ \E p \in Procs, k \in Keys, c \in Creds : Resolve(p, k, c, "none")
  \/ \E p \in Procs : Restart(p)
  \/ \E k \in Keys, fwd \in BOOLEAN : KvSync(k, fwd)

Spec == Init /\ [][Next]_vars

\* runs in which cache.put, cache.match, arrayBuffer, kv.get and getByFkey may
\* reject (pf, f = the call that rejects), between the starts of the
\* processes; the rows uploaded here are live ones
NextFault ==
  \/ \E p \in Procs, k \in Keys, m \in MetasWith(writes + 1, {ExpFuture}), pf \in BOOLEAN :
        Upload(p, k, m, pf)
  \/ \E p \in Procs, k \in Keys, strip \in BOOLEAN : Remove(p, k, strip, FALSE)
  \/ \E msg \in chan : Deliver(msg, FALSE)
  \/ \E p \in Procs, k \in Keys, c \in Creds : Resolve(p, k, c, "none")
  \/ \E k \in Keys, fwd \in BOOLEAN : KvSync(k, fwd)
  \/ \E p \in Procs, k \in Keys, strip \in BOOLEAN : Remove(p, k, strip, TRUE)
  \/ \E msg \in chan : Deliver(msg, TRUE)
  \/ \E p \in Procs, k \in Keys, c \in Creds, f \in Faults \ {"none"} : Resolve(p, k, c, f)

SpecFault == Init /\ [][NextFault]_vars

\* the channel loses one message: its recipient's handler never runs for it
Drop(msg) ==
  /\ msg \in chan
  /\ chan' = chan \ {msg}
  /\ last' = Event("drop", msg.to, msg.key, "", <<>>, 0, 0, "none", FALSE)
  /\ UNCHANGED <<memCache, cache, kv, db, writes, clean, pending>>

\* live rows that fit into L1
MetasInMemory(c) == {m \in MetasWith(c, {ExpFuture}) : m.len[1] <= MAX_CACHE_SIZE}

\* runs over a channel that may lose messages, without restarts; requests
\* keep arriving at every process with every credential, and a message that
\* is not lost is handled
NextLoss ==
  \/ \E p \in Procs, k \in Keys, m \in MetasInMemory(writes + 1) : Upload(p, k, m, FALSE)
  \/ \E p \in Procs, k \in Keys, strip \in BOOLEAN : Remove(p, k, strip, FALSE)
  \/ \E msg \in chan : Deliver(msg, FALSE)
  \/ \E msg \in chan : Drop(msg)
  \/ \E p \in Procs, k \in Keys, c \in Creds : Resolve(p, k, c, "none")

SpecLoss ==
  /\ Init
  /\ [][NextLoss]_vars
  /\ \A p \in Procs, k \in Keys, c \in Creds : WF_vars(Resolve(p, k, c, "none"))
  /\ WF_vars(\E msg \in chan : Deliver(msg, FALSE))

\* getCachedContent runs up to the await it is suspended at: the arrayBuffer
\* of an L2 entry the credential opens (line 85, rec = the decoded headers and
\* body), or getByFkey (line 121, rec = the row it resolves to)
ResolveBegin(p, k, c) ==
  /\ pending[p] = <<>>
  /\ LET cc == checkCached(memCache[p][k], cache[k], kv[k], c, "none")
         pc == IF cc.line = 94 THEN 85 ELSE 121
     IN /\ cc.line = 94 \/ cc.kind = "true" \/ (cc.kind = "rec" /\ cc.val.content = <<>>)
        /\ pending' = [pending EXCEPT ![p] =
                         <<[pc |-> pc, key |-> k, cred |-> c,
                            rec |-> IF pc = 85 THEN <<cc.val>> ELSE getByFkey(db[k])]>>]
        /\ last' = Event("await", p, k, c, <<>>, pc, 0, "none", FALSE)
  /\ clean' = FALSE
  /\ UNCHANGED <<memCache, cache, kv, db, chan, writes>>

\* the suspended call resumes: memCache.set and return (lines 93-94), or the
\* rest of getCachedContent with the row it read (lines 122-125)
ResolveEnd(p) ==
  /\ pending[p] # <<>>
  /\ LET t == pending[p][1]
         k == t.key
         g == IF t.pc = 85
              THEN GcRet(t.rec, t.rec, cache[k], 94, 0, "none", FALSE)
              ELSE GcBackingStore(memCache[p][k], cache[k], t.rec, t.cred, "none")
     IN /\ memCache' = [memCache EXCEPT ![p][k] = g.l1]
        /\ cache' = [cache EXCEPT ![k] = g.l2]
        /\ last' = Event("resolve", p, k, t.cred, g.res, g.line, g.dbCalls, g.fault, g.threw)
  /\ pending' = [pending EXCEPT ![p] = <<>>]
  /\ UNCHANGED <<kv, db, chan, writes, clean>>

\* the byte tier drops an entry by its own ageing (Cache-Control max-age)
Age(k) ==
  /\ cache[k] # <<>>
  /\ cache' = [cache EXCEPT ![k] = <<>>]
  /\ last' = Event("age", "A", k, "", <<>>, 0, 0, "none", FALSE)
  /\ UNCHANGED <<memCache, kv, db, chan, writes, clean, pending>>

\* runs in which a resolve is suspended at its awaits while other tasks of
\* its process run
NextAsync ==
  \/ \E p \in Procs, k \in Keys, m \in MetasInMemory(writes + 1) : Upload(p, k, m, FALSE)
  \/ \E p \in Procs, k \in Keys, strip \in BOOLEAN : Remove(p, k, strip, FALSE)
  \/ \E msg \in chan : Deliver(msg, FALSE)
  \/ \E p \in Procs, k \in Keys, c \in Creds : ResolveBegin(p, k, c)
  \/ \E p \in Procs : ResolveEnd(p)
  \/ \E k \in Keys : Age(k)
  \/ \E k \in Keys, fwd \in BOOLEAN : KvSync(k, fwd)

SpecAsync == Init /\ [][NextAsync]_vars

-----------------------------------------------------------------------------
(* Claims *)

\* the row the store holds for the key of the last operation
Stored == db[last.key]

\* C1 (as stated): publish(k, m) followed immediately, in the same process, by
\* resolve(k, p) with p = m's password returns a record whose payload is m's,
\* whatever L1 and L2 held before and whatever m's length is.
C1_ReadAfterWrite ==
  [][(/\ last.op = "publish"
      /\ last'.op = "resolve"
      /\ last'.proc = last.proc
      /\ last'.key = last.key
      /\ last'.cred = Stored[1].pwd)
     => (last'.res # <<>> /\ last'.res[1].content = Stored[1].content)]_vars

\* C2 (as stated): resolve never returns a record whose expire is in the past;
\* such a key is answered as Absent.
C2_ExpiredIsAbsent ==
  last.op = "resolve" /\ last.res # <<>> => ~Expired(last.res[1])

\* C2 (amended): resolve does not look at expire.  An L1 entry with payload
\* that the credential opens is returned as it is; otherwise an L2 entry that
\* the credential opens is returned with the expire and body it stores; and a
\* backing-store row that the credential opens is returned as it is: each of
\* them also when its expire is in the past.
C2_ExpireNotEvaluated ==
  [][last'.op = "resolve" =>
       LET l1 == memCache[last'.proc][last'.key]
           l2 == cache[last'.key]
           row == db[last'.key]
           c == last'.cred
           l1Full == l1 # <<>> /\ l1[1].content # <<>>
           l1Opens == l1 = <<>> \/ checkPassword(l1[1].pwd, c)
       IN /\ (l1Full /\ l1Opens) => last'.res = l1
          /\ (~l1Full /\ l1Opens /\ l2 # <<>> /\ l2[1].xpwd \in {"", c})
               => /\ last'.res # <<>>
                  /\ last'.res[1].expire = <<l2[1].xexpire>>
                  /\ last'.res[1].content = <<l2[1].body>>
          /\ (last'.dbCalls = 1 /\ row # <<>> /\ checkPassword(row[1].pwd, c))
               => last'.res = row]_vars

\* a resolve has returned a record whose expire is in the past
C2_ExpiredReturned ==
  last.op = "resolve" /\ last.res # <<>> /\ Expired(last.res[1])

\* what resolve(k, c) answers in process p in the state after the step
ResolveNext(p, k, c) ==
  getCachedContent(memCache'[p][k], cache'[k], kv'[k], db'[k], c, "none")

\* C3 (as stated): process B holds a Full entry for k; once B's handler has
\* handled the delete message of a retract(k, m), every resolve(k, c) in B
\* returns null or a record whose expire is past, without a getByFkey call.
C3_DeleteConverges ==
  [][(/\ last'.op = "delete"
      /\ memCache[last'.proc][last'.key] # <<>>
      /\ memCache[last'.proc][last'.key][1].content # <<>>)
     => \A c \in Creds :
          LET g == ResolveNext(last'.proc, last'.key, c)
          IN (g.res = <<>> \/ Expired(g.res[1])) /\ g.dbCalls = 0]_vars

\* C4 (as stated): the store does not hold k and nothing is cached for k in
\* the process (L1 and L2 empty, L3 in any state): the first resolve(k, c)
\* returns null and leaves the negative marker in L1, and a second
\* resolve(k, c) returns null without a getByFkey call.
C4_NegativeCaching ==
  [][(/\ last'.op = "resolve"
      /\ db[last'.key] = <<>>
      /\ memCache[last'.proc][last'.key] = <<>>
      /\ cache[last'.key] = <<>>)
     => /\ last'.res = <<>>
        /\ memCache'[last'.proc][last'.key] = <<AbsentMarker>>
        /\ LET g == ResolveNext(last'.proc, last'.key, last'.cred)
           IN g.res = <<>> /\ g.dbCalls = 0]_vars

\* C6 (as stated): the processes have only applied writes (their own and the
\* broadcast ones) and every message has been handled: their L1 entries for
\* each key are equal.
C6_WritesConverge ==
  (clean /\ chan = {}) =>
    \A p \in Procs, q \in Procs, k \in Keys : memCache[p][k] = memCache[q][k]

\* the returns of checkCached and getCachedContent that deny a credential
\* (the null of lines 103 and 122 is the absent key)
DeniedLines == {67, 78, 107, 123}

\* C5 (as stated): k exists and is password-protected and no message is in
\* flight; resolve(k, wrong) was denied; the next resolve(k, right) of the
\* process, with the row's real password, returns a record with the row's
\* payload, and a Denied entry the first call left in L1 (lines 77 and 106)
\* carries the row's real password.
C5_DeniedRecheck ==
  [][(/\ chan = {}
      /\ last.op = "resolve"
      /\ last'.op = "resolve"
      /\ last'.proc = last.proc
      /\ last'.key = last.key
      /\ Stored # <<>>
      /\ Stored[1].pwd # ""
      /\ last.cred # Stored[1].pwd
      /\ last.res = <<>>
      /\ last.line \in DeniedLines
      /\ memCache[last.proc][last.key] # <<AbsentMarker>>
      /\ last'.cred = Stored[1].pwd)
     => /\ last'.res # <<>>
        /\ last'.res[1].content = Stored[1].content
        /\ last.line \in {78, 107} =>
             memCache[last.proc][last.key] = <<DeniedEntry(Stored[1].pwd)>>]_vars

\* the lookups of the cache tiers that can reject: cache.match (72),
\* arrayBuffer (85), kv.get (100)
TierFaults == {"match", "body", "kv"}

\* C7 (as stated): a fault of the L2 or L3 lookup is a miss of that tier: the
\* resolve still returns the row the backing store holds for a credential that
\* opens it.
C7_TierFaultIsMiss ==
  (/\ last.op = "resolve"
   /\ last.fault \in TierFaults
   /\ Stored # <<>>
   /\ checkPassword(Stored[1].pwd, last.cred))
  => last.res = Stored

\* C7 (amended): a fault of the L2 or L3 lookup ends the resolve: the catch of
\* getCachedContent returns null, no lower tier and no backing store is asked,
\* and L1 and L2 stay as they were.
C7_TierFaultIsNull ==
  [][(last'.op = "resolve" /\ last'.fault \in TierFaults)
     => /\ last'.res = <<>>
        /\ last'.line = 128
        /\ last'.dbCalls = 0
        /\ ~last'.threw
        /\ memCache' = memCache
        /\ cache' = cache]_vars

\* a tier lookup has faulted in a resolve of a key the store holds, with a
\* credential that opens it
C7_TierFaultOnStoredKey ==
  /\ last.op = "resolve"
  /\ last.fault \in TierFaults
  /\ Stored # <<>>
  /\ checkPassword(Stored[1].pwd, last.cred)

\* C8 (as stated): a fault of getByFkey during resolve reaches the caller as
\* an error.
C8_StoreFaultReported ==
  (last.op = "resolve" /\ last.fault = "db") => last.threw

\* C8 (amended): a fault of getByFkey during resolve is caught and logged:
\* resolve returns null, as for an absent key, and L1 and L2 stay as they were.
C8_StoreFaultIsNull ==
  [][(last'.op = "resolve" /\ last'.fault = "db")
     => /\ ~last'.threw
        /\ last'.res = <<>>
        /\ last'.line = 128
        /\ last'.dbCalls = 1
        /\ memCache' = memCache
        /\ cache' = cache]_vars

\* getByFkey has faulted in a resolve of a key the store holds
C8_StoreFaultOnStoredKey ==
  last.op = "resolve" /\ last.fault = "db" /\ Stored # <<>>

\* C9: publish, retract and the message handler never throw to their caller,
\* also when cache.put rejects; a resolve that the backing store answered and
\* whose publish met a rejecting cache.put still returns the row.
C9_CachingBestEffort ==
  /\ last.op \in {"publish", "retract", "update", "delete"} => ~last.threw
  /\ (last.op = "resolve" /\ last.fault = "put")
       => (~last.threw /\ last.line = 125 /\ last.res # <<>> /\ last.res = Stored)

\* cache.put has rejected in the publish of a resolve the store answered
C9_PutFaultInResolve ==
  last.op = "resolve" /\ last.fault = "put" /\ last.dbCalls = 1

\* the lines at which a resolve is answered below the byte tier
BelowL2 == {103, 107, 122, 123, 125}

\* C10: a publish (by the caller or by the message handler) of a record longer
\* than the byte-tier ceiling leaves L2 as it was; if L2 held nothing for k,
\* a resolve with the row's password and an empty L1 is answered below L2.
C10_SizeGatedWrite ==
  [][\A k \in Keys :
       (\/ /\ last'.op = "publish" /\ last'.key = k
           /\ db'[k][1].len[1] > BYTE_TIER_MAX
        \/ /\ last'.op = "update" /\ last'.key = k
           /\ \E msg \in chan \ chan' : msg.md[1].len[1] > BYTE_TIER_MAX)
       => /\ cache'[k] = cache[k]
          /\ (cache[k] = <<>> /\ db'[k] # <<>>) =>
               getCachedContent(<<>>, cache'[k], kv'[k], db'[k], db'[k][1].pwd, "none").line
                 \in BelowL2]_vars

\* a record longer than the byte-tier ceiling has been published while L2
\* held no entry for its key
C10_OversizedPublished ==
  /\ last.op = "publish"
  /\ Stored # <<>>
  /\ Stored[1].len[1] > BYTE_TIER_MAX
  /\ cache[last.key] = <<>>

\* the record a step handed to updateCache: the row of an upload, the
\* metadata of a handled message, or the row a resolve read at line 121
Published ==
  IF last'.op = "publish" THEN db'[last'.key]
  ELSE IF last'.op \in {"update", "delete"} THEN (CHOOSE msg \in chan \ chan' : TRUE).md
  ELSE last'.res

\* C11: after a publish(k, m) (by the caller, by the message handler, or by a
\* resolve the backing store answered), a second publish(k, m) with the same m
\* leaves L1 and L2 as the first left them, and every resolve(k, c) answers
\* the same after two calls as after one.
C11_PublishIdempotent ==
  [][(\/ last'.op \in {"publish", "update", "delete"}
      \/ last'.op = "resolve" /\ last'.line = 125)
     => LET p == last'.proc
            k == last'.key
            u == updateCache(memCache'[p][k], cache'[k], Published, FALSE)
        IN /\ u.l1 = memCache'[p][k]
           /\ u.l2 = cache'[k]
           /\ \A c \in Creds :
                getCachedContent(u.l1, u.l2, kv'[k], db'[k], c, "none").res = ResolveNext(p, k, c).res]_vars

\* a message handler has published a record to tiers that already held it
C11_RepublishedSame ==
  /\ last.op = "update"
  /\ memCache[last.proc][last.key] # <<>>
  /\ memCache[last.proc][last.key] = Stored
  /\ cache[last.key] = <<Encode(Stored[1])>>

\* C12 (as stated): after retract(k, m) the L1 entry of the process carries
\* m's password and an expire that is past, and, for an m within the
\* byte-tier ceiling, L2 holds a record whose expire is past.
C12_RetractTombstone ==
  [][last'.op = "retract" =>
       LET p == last'.proc
           k == last'.key
           m == db[k][1]
           l1 == memCache'[p][k]
       IN /\ l1 # <<>>
          /\ l1[1].pwd = m.pwd
          /\ Expired(l1[1])
          /\ m.len[1] <= BYTE_TIER_MAX => (cache'[k] # <<>> /\ cache'[k][1].xexpire < Now)]_vars

\* C13 (as stated): in a resolve that reaches getByFkey, a miss leaves the
\* negative marker in L1 and returns null; a row the credential does not open
\* leaves a Denied entry with the row's password in L1 and returns null; a row
\* the credential opens is published and returned.
C13_BackingStoreStep ==
  [][(last'.op = "resolve" /\ last'.dbCalls = 1) =>
       LET p == last'.proc
           k == last'.key
           row == db[k]
           l1 == memCache'[p][k]
       IN /\ row = <<>> => (last'.res = <<>> /\ l1 = <<AbsentMarker>>)
          /\ (row # <<>> /\ ~checkPassword(row[1].pwd, last'.cred))
               => (last'.res = <<>> /\ l1 = <<DeniedEntry(row[1].pwd)>>)
          /\ (row # <<>> /\ checkPassword(row[1].pwd, last'.cred))
               => (last'.res = row /\ last'.line = 125)]_vars

\* C14 (as stated): a resolve that returns a record leaves it in every tier
\* above the answering one, within the size ceilings: an answer of L2 (line
\* 94) in L1; an answer of the backing store (line 125) in L1, L2 and L3.
C14_PromotionOnRead ==
  [][(last'.op = "resolve" /\ last'.res # <<>>) =>
       LET p == last'.proc
           k == last'.key
           r == last'.res[1]
       IN /\ (last'.line = 94 /\ r.len[1] <= MAX_CACHE_SIZE) => memCache'[p][k] = <<r>>
          /\ last'.line = 125 =>
               /\ r.len[1] <= MAX_CACHE_SIZE => memCache'[p][k] = <<r>>
               /\ r.len[1] <= BYTE_TIER_MAX => cache'[k] = <<Encode(r)>>
               /\ kv'[k] = [kind |-> "rec", val |-> StripContent(r)]]_vars

\* C15: L1 holds an entry without payload whose password the credential does
\* not match: resolve returns null at line 67, before cache.match, kv.get and
\* getByFkey, and L1, L2 and L3 stay as they were.
C15_DeniedShortCircuit ==
  [][(/\ last'.op = "resolve"
      /\ memCache[last'.proc][last'.key] # <<>>
      /\ memCache[last'.proc][last'.key][1].content = <<>>
      /\ ~checkPassword(memCache[last'.proc][last'.key][1].pwd, last'.cred))
     => /\ last'.res = <<>>
        /\ last'.line = 67
        /\ last'.dbCalls = 0
        /\ last'.fault = "none"
        /\ memCache' = memCache
        /\ cache' = cache
        /\ kv' = kv]_vars

\* a resolve was denied by a Denied entry of L1 although L2 holds the record
C15_DeniedByL1 ==
  /\ last.op = "resolve"
  /\ last.line = 67
  /\ memCache[last.proc][last.key] = <<DeniedEntry("p")>>
  /\ cache[last.key] # <<>>

\* C18 (as stated): L1 never holds a record with payload whose len is above
\* MAX_CACHE_SIZE.
C18_L1SizeCeiling ==
  \A p \in Procs, k \in Keys :
    (memCache[p][k] # <<>> /\ memCache[p][k][1].content # <<>>)
      => memCache[p][k][1].len[1] <= MAX_CACHE_SIZE

\* C19: a record that resolve returns has an empty password or the password
\* the caller supplied.
C19_AuthorizationSafety ==
  (last.op = "resolve" /\ last.res # <<>>) => checkPassword(last.res[1].pwd, last.cred)

\* a resolve has returned a password-protected record to the caller that
\* supplied its password
C19_ProtectedReturned ==
  last.op = "resolve" /\ last.res # <<>> /\ last.res[1].pwd = "p" /\ last.cred = "p"

\* process p holds an L1 entry for k that is not what the store holds now
StaleIn(p, k) ==
  /\ memCache[p][k] # <<>>
  /\ memCache[p][k] # <<AbsentMarker>>
  /\ memCache[p][k] # db[k]

\* the last operation is a resolve in p that answered what the store holds:
\* the row, or null for a key the store does not hold (not the null of line
\* 67, by which an L1 entry turns a credential away)
FreshAnswer(p) ==
  /\ last.op = "resolve"
  /\ last.proc = p
  /\ IF Stored = <<>> THEN last.res = <<>> /\ last.line # 67 ELSE last.res = Stored

\* C16 (as stated): a message to process p is lost, no other message to p
\* is in flight and p holds a stale L1 entry for the key; with resolves
\* arriving in p for ever, one of them eventually answers what the store
\* holds.
C16_LossDegrades ==
  \A p \in Procs :
    (/\ last.op = "drop"
     /\ last.proc = p
     /\ \A msg \in chan : msg.to # p
     /\ StaleIn(p, last.key)) ~> FreshAnswer(p)

\* C17 (as stated): a resolve of process p is suspended at an await, a
\* publish or retract of the same key runs to its end in p, and the resolve
\* resumes next: it leaves L1 of p and L2 as the write left them.
C17_NoLostUpdate ==
  [][\A p \in Procs :
       (/\ pending[p] # <<>>
        /\ pending'[p] = <<>>
        /\ last.op \in {"publish", "retract"}
        /\ last.proc = p
        /\ last.key = pending[p][1].key)
       => /\ memCache'[p][last.key] = memCache[p][last.key]
          /\ cache'[last.key] = cache[last.key]]_vars

====
